---- MODULE Spec2Model ----
(***************************************************************************)
(* Model of app.py of english-wordapp: the session-scoped progress store   *)
(* (word mode-scores, grammar read counts), the score aggregation, the     *)
(* weighted question selection, the progress.json export / import and the  *)
(* word quiz of the page (start, reveal, grade, next, reset).              *)
(*                                                                         *)
(* Python strings are sequences of one-character strings, so that the      *)
(* composite keys "level|headword|mode" and "level|name" are built with    *)
(* concatenation and taken apart with split / startswith as app.py does.   *)
(***************************************************************************)
EXTENDS Integers, Sequences, FiniteSets, TLC

VARIABLES progress, clock, nops, ret,
          word_level, include_listening, started, q_idx, q_mode, revealed,
          pc, call, prev_attempts

\* the widgets and the session state of the word quiz
quiz == <<word_level, include_listening, started, q_idx, q_mode, revealed>>

\* the two writers of the interleaving: where each is, the arguments of its
\* call and its local prev_attempts
writers == <<pc, call, prev_attempts>>

vars == <<progress, clock, nops, ret, quiz, writers>>

(***************************************************************************)
(* Bounds of the exploration.                                              *)
(***************************************************************************)
\* number of events in one run: calls that write the store (grade, grammar
\* read, import), ticks of the clock now_iso() reads, and runs of the page's
\* script that a button or a widget of the word quiz starts
MaxOps == 3

(***************************************************************************)
(* Strings.                                                                *)
(***************************************************************************)
SEP == "|"

A1 == <<"A", "1">>
A2 == <<"A", "2">>
B1 == <<"B", "1">>
B2 == <<"B", "2">>

\* the level selectbox
LEVELS == {A1, A2, B1, B2}

\* the five quiz modes
MODES == 1..5

Digits == <<"0", "1", "2", "3", "4", "5", "6", "7", "8", "9">>

\* str(n) of a Python int, as the f-string formats the mode
RECURSIVE IntToStr(_)
IntToStr(n) ==
    IF n < 0 THEN <<"-">> \o IntToStr(0 - n)
    ELSE IF n < 10 THEN <<Digits[n + 1]>>
    ELSE IntToStr(n \div 10) \o <<Digits[(n % 10) + 1]>>

DigitValue(c) == (CHOOSE i \in 1..10 : Digits[i] = c) - 1

IsDigit(c) == \E i \in 1..10 : Digits[i] = c

RECURSIVE DigitsValue(_)
DigitsValue(s) ==
    IF Len(s) = 0 THEN 0
    ELSE 10 * DigitsValue(SubSeq(s, 1, Len(s) - 1)) + DigitValue(s[Len(s)])

\* int(s) of a Python string: an optional sign and one or more decimal
\* digits (leading zeros allowed); anything else raises ValueError
ParseInt(s) ==
    LET signed == Len(s) > 0 /\ s[1] \in {"-", "+"}
        body   == IF signed THEN SubSeq(s, 2, Len(s)) ELSE s
    IN  IF Len(body) > 0 /\ \A i \in 1..Len(body) : IsDigit(body[i])
        THEN [ok |-> TRUE,
              v  |-> IF signed /\ s[1] = "-" THEN 0 - DigitsValue(body)
                     ELSE DigitsValue(body)]
        ELSE [ok |-> FALSE, v |-> 0]

\* s.split("|", maxsplit)
RECURSIVE Split(_, _)
Split(s, maxsplit) ==
    IF maxsplit = 0 \/ ~(\E i \in 1..Len(s) : s[i] = SEP) THEN <<s>>
    ELSE LET i == CHOOSE j \in 1..Len(s) :
                     s[j] = SEP /\ \A k \in 1..(j - 1) : s[k] # SEP
         IN  <<SubSeq(s, 1, i - 1)>> \o Split(SubSeq(s, i + 1, Len(s)), maxsplit - 1)

\* s.startswith(prefix)
StartsWith(s, prefix) ==
    Len(s) >= Len(prefix) /\ SubSeq(s, 1, Len(prefix)) = prefix

\* f"{level}|{headword}|{mode}"
WordKey(level, headword, mode) ==
    level \o <<SEP>> \o headword \o <<SEP>> \o IntToStr(mode)

\* f"{level}|{name}"
GrammarKey(level, name) == level \o <<SEP>> \o name

(***************************************************************************)
(* Dictionaries are functions; rec.get(field, default) and d[key] = value. *)
(***************************************************************************)
EmptyDict == [k \in {} |-> 0]

RecGet(rec, field, default) ==
    IF field \in DOMAIN rec THEN rec[field] ELSE default

\* an assignment that leaves the one key in the dictionary
DictSetOnly(d, key, value) == [k \in {key} |-> value]

DictSet(d, key, value) ==
    [k \in (DOMAIN d) \cup {key} |-> IF k = key THEN value ELSE d[k]]

(***************************************************************************)
(* The progress store.                                                     *)
(***************************************************************************)
\* the store ensure_progress() creates when the session has none
ensure_progress == [word_scores |-> EmptyDict, grammar_reads |-> EmptyDict]

\* a store that answers an unseen key with score 0
get_word_mode_score_zero(p, level, headword, mode) ==
    LET key == WordKey(level, headword, mode)
    IN  IF key \notin DOMAIN p.word_scores THEN <<0, 0>>
        ELSE LET rec == p.word_scores[key]
             IN  <<RecGet(rec, "score", 1), RecGet(rec, "attempts", 0)>>

get_word_mode_score(p, level, headword, mode) ==
    LET key == WordKey(level, headword, mode)
    IN  IF key \notin DOMAIN p.word_scores THEN <<1, 0>>
        ELSE LET rec == p.word_scores[key]
             IN  <<RecGet(rec, "score", 1), RecGet(rec, "attempts", 0)>>

\* a store that resets attempts on every grade
set_word_mode_score_reset(p, level, headword, mode, score, now) ==
    [p EXCEPT !.word_scores =
        DictSet(@, WordKey(level, headword, mode),
                [score |-> score, attempts |-> 1, updated_at |-> now])]

set_word_mode_score(p, level, headword, mode, score, now) ==
    LET key  == WordKey(level, headword, mode)
        prev == get_word_mode_score(p, level, headword, mode)
    IN  [p EXCEPT !.word_scores =
            DictSet(@, key, [score      |-> score,
                             attempts   |-> prev[2] + 1,
                             updated_at |-> now])]

\* a loop that adds the score itself, not what it adds to the default 1
TotalsStepFull(totals, level, key, rec) ==
    LET parts == Split(key, 2)
    IN  IF Len(parts) # 3 THEN totals
        ELSE LET lvl  == parts[1]
                 hw   == parts[2]
                 mode == ParseInt(parts[3])
             IN  IF ~mode.ok THEN totals
                 ELSE IF lvl # level THEN totals
                 ELSE IF hw \notin DOMAIN totals THEN totals
                 ELSE IF ~(1 <= mode.v /\ mode.v <= 5) THEN totals
                 ELSE [totals EXCEPT ![hw] = @ + RecGet(rec, "score", 1)]

\* one turn of the loop over word_scores.items(): the totals after the
\* entry (key, rec) has been looked at
TotalsStep(totals, level, key, rec) ==
    LET parts == Split(key, 2)
    IN  IF Len(parts) # 3 THEN totals
        ELSE LET lvl  == parts[1]
                 hw   == parts[2]
                 mode == ParseInt(parts[3])
             IN  IF ~mode.ok THEN totals
                 ELSE IF lvl # level THEN totals
                 ELSE IF hw \notin DOMAIN totals THEN totals
                 ELSE IF ~(1 <= mode.v /\ mode.v <= 5) THEN totals
                 ELSE [totals EXCEPT ![hw] = @ + (RecGet(rec, "score", 1) - 1)]

RECURSIVE TotalsLoop(_, _, _, _)
TotalsLoop(totals, level, ws, keys) ==
    IF keys = {} THEN totals
    ELSE LET key == CHOOSE k \in keys : TRUE
         IN  TotalsLoop(TotalsStep(totals, level, key, ws[key]),
                        level, ws, keys \ {key})

get_all_word_totals(p, level, headwords) ==
    LET totals == [hw \in {headwords[i] : i \in 1..Len(headwords)} |-> 5]
    IN  TotalsLoop(totals, level, p.word_scores, DOMAIN p.word_scores)

\* a grammar read that writes a new entry over the old one
mark_grammar_read_replace(p, level, name, now) ==
    [p EXCEPT !.grammar_reads =
        DictSet(@, GrammarKey(level, name), [read_count |-> 1, last_read_at |-> now])]

mark_grammar_read(p, level, name, now) ==
    LET key == GrammarKey(level, name)
    IN  IF key \notin DOMAIN p.grammar_reads
        THEN [p EXCEPT !.grammar_reads =
                 DictSet(@, key, [read_count |-> 1, last_read_at |-> now])]
        ELSE [p EXCEPT !.grammar_reads =
                 DictSet(@, key,
                         [read_count   |-> RecGet(@[key], "read_count", 0) + 1,
                          last_read_at |-> now])]

\* a statistic that cuts the key at every separator
get_grammar_read_stats_split(p, level, names) ==
    LET read_keys   == DOMAIN p.grammar_reads
        read_names  == {Split(k, 2)[2] :
                           k \in {x \in read_keys : StartsWith(x, level \o <<SEP>>)}}
        total       == Len(names)
        read_unique == Cardinality({i \in 1..Len(names) : names[i] \in read_names})
    IN  <<read_unique, total>>

get_grammar_read_stats(p, level, names) ==
    LET read_keys   == DOMAIN p.grammar_reads
        read_names  == {Split(k, 1)[2] :
                           k \in {x \in read_keys : StartsWith(x, level \o <<SEP>>)}}
        total       == Len(names)
        read_unique == Cardinality({i \in 1..Len(names) : names[i] \in read_names})
    IN  <<read_unique, total>>

(***************************************************************************)
(* progress.json.  A text is modelled by its JSON structure:               *)
(*   [k |-> "invalid"]            not JSON at all                          *)
(*   [k |-> "null"], [k |-> "number", n |-> 5], [k |-> "string", s |-> ""] *)
(*   [k |-> "array", a |-> <<...>>]                                        *)
(*   [k |-> "object", m |-> <<<<name, value>>, ...>>]  members in order    *)
(* The innermost objects, the entry records {score, attempts, updated_at}  *)
(* and {read_count, last_read_at}, are records of integers that may lack   *)
(* any of their fields.  json.loads() yields the Python values             *)
(*   [k |-> "None"], [k |-> "int", n |-> 5], [k |-> "str", s |-> ""],      *)
(*   [k |-> "list", a |-> <<...>>], [k |-> "dict", d |-> function].        *)
(***************************************************************************)
IsEntryRecord(v) == "k" \notin DOMAIN v

\* a dict built from the members of a JSON object: a repeated name keeps
\* the value of its last member
LastWins(members) ==
    [name \in {members[i][1] : i \in 1..Len(members)} |->
        LET last == CHOOSE i \in 1..Len(members) :
                        /\ members[i][1] = name
                        /\ \A j \in (i + 1)..Len(members) : members[j][1] # name
        IN  members[last][2]]

RECURSIVE JsonValue(_)
JsonValue(t) ==
    IF IsEntryRecord(t) THEN t
    ELSE IF t.k = "null" THEN [k |-> "None"]
    ELSE IF t.k = "number" THEN [k |-> "int", n |-> t.n]
    ELSE IF t.k = "string" THEN [k |-> "str", s |-> t.s]
    ELSE IF t.k = "array"
         THEN [k |-> "list", a |-> [i \in 1..Len(t.a) |-> JsonValue(t.a[i])]]
    ELSE LET parsed == [i \in 1..Len(t.m) |-> <<t.m[i][1], JsonValue(t.m[i][2])>>]
         IN  [k |-> "dict", d |-> LastWins(parsed)]

\* json.loads(text)
json_loads(text) ==
    IF text.k = "invalid" THEN [ok |-> FALSE, exc |-> "JSONDecodeError"]
    ELSE [ok |-> TRUE, v |-> JsonValue(text)]

\* the items of a dict, one after the other
RECURSIVE Items(_, _)
Items(d, keys) ==
    IF keys = {} THEN <<>>
    ELSE LET key == CHOOSE k \in keys : TRUE
         IN  <<<<key, d[key]>>>> \o Items(d, keys \ {key})

\* json.dumps(value)
RECURSIVE json_dumps(_)
json_dumps(v) ==
    IF IsEntryRecord(v) THEN v
    ELSE IF v.k = "None" THEN [k |-> "null"]
    ELSE IF v.k = "int" THEN [k |-> "number", n |-> v.n]
    ELSE IF v.k = "str" THEN [k |-> "string", s |-> v.s]
    ELSE IF v.k = "list"
         THEN [k |-> "array", a |-> [i \in 1..Len(v.a) |-> json_dumps(v.a[i])]]
    ELSE LET items == Items(v.d, DOMAIN v.d)
         IN  [k |-> "object",
              m |-> [i \in 1..Len(items) |-> <<items[i][1], json_dumps(items[i][2])>>]]

\* an export that writes the word scores under both names
export_progress_json_copied(p, now) ==
    [k |-> "object",
     m |-> << <<"version", json_dumps([k |-> "int", n |-> 1])>>,
              <<"exported_at", json_dumps([k |-> "int", n |-> now])>>,
              <<"word_scores", json_dumps([k |-> "dict", d |-> p.word_scores])>>,
              <<"grammar_reads", json_dumps([k |-> "dict", d |-> p.word_scores])>> >>]

\* the payload dict is written in the order of its literal
export_progress_json(p, now) ==
    [k |-> "object",
     m |-> << <<"version", json_dumps([k |-> "int", n |-> 1])>>,
              <<"exported_at", json_dumps([k |-> "int", n |-> now])>>,
              <<"word_scores", json_dumps([k |-> "dict", d |-> p.word_scores])>>,
              <<"grammar_reads", json_dumps([k |-> "dict", d |-> p.grammar_reads])>> >>]

\* name in data / name not in data
Contains(data, name) ==
    IF data.k = "dict" THEN [ok |-> TRUE, v |-> name \in DOMAIN data.d]
    ELSE IF data.k = "list"
         THEN [ok |-> TRUE,
               v  |-> \E i \in 1..Len(data.a) :
                         data.a[i].k = "str" /\ data.a[i].s = name]
    ELSE [ok |-> FALSE, exc |-> "TypeError"]

\* dict(value)
py_dict(v) ==
    IF v.k = "dict" THEN [ok |-> TRUE, d |-> v.d]
    ELSE IF v.k = "list"
         THEN IF Len(v.a) = 0 THEN [ok |-> TRUE, d |-> EmptyDict]
              ELSE [ok |-> FALSE, exc |-> "TypeError"]
    ELSE IF v.k = "str"
         THEN IF v.s = "" THEN [ok |-> TRUE, d |-> EmptyDict]
              ELSE [ok |-> FALSE, exc |-> "ValueError"]
    ELSE [ok |-> FALSE, exc |-> "TypeError"]

\* an import that looks for grammar_reads only after it has replaced the
\* word scores
import_progress_json_late(p, text) ==
    LET loaded == json_loads(text)
    IN  IF ~loaded.ok THEN [progress |-> p, exc |-> loaded.exc]
        ELSE
        LET data == loaded.v
            hasW == Contains(data, "word_scores")
        IN  IF ~hasW.ok THEN [progress |-> p, exc |-> hasW.exc]
            ELSE IF ~hasW.v THEN [progress |-> p, exc |-> "ValueError"]
            ELSE
            LET ws == py_dict(data.d["word_scores"])
            IN  IF ~ws.ok THEN [progress |-> p, exc |-> ws.exc]
                ELSE
                LET p1 == [p EXCEPT !.word_scores = ws.d]
                IN  IF ~Contains(data, "grammar_reads").v
                    THEN [progress |-> p1, exc |-> "ValueError"]
                    ELSE
                    LET gr == py_dict(data.d["grammar_reads"])
                    IN  IF ~gr.ok THEN [progress |-> p1, exc |-> gr.exc]
                        ELSE [progress |-> [p1 EXCEPT !.grammar_reads = gr.d],
                              exc      |-> "none"]

\* dict.update() in the place of the assignment: the entries of the file
\* are merged into the store
DictUpdate(d, other) ==
    [k \in (DOMAIN d) \cup (DOMAIN other) |->
        IF k \in DOMAIN other THEN other[k] ELSE d[k]]

import_progress_json_merge(p, text) ==
    LET loaded == json_loads(text)
    IN  IF ~loaded.ok THEN [progress |-> p, exc |-> loaded.exc]
        ELSE
        LET data == loaded.v
            hasW == Contains(data, "word_scores")
        IN  IF ~hasW.ok THEN [progress |-> p, exc |-> hasW.exc]
            ELSE IF ~hasW.v THEN [progress |-> p, exc |-> "ValueError"]
            ELSE IF ~Contains(data, "grammar_reads").v
                 THEN [progress |-> p, exc |-> "ValueError"]
            ELSE
            LET ws == py_dict(data.d["word_scores"])
            IN  IF ~ws.ok THEN [progress |-> p, exc |-> ws.exc]
                ELSE
                LET p1 == [p EXCEPT !.word_scores = DictUpdate(@, ws.d)]
                    gr == py_dict(data.d["grammar_reads"])
                IN  IF ~gr.ok THEN [progress |-> p1, exc |-> gr.exc]
                    ELSE [progress |-> [p1 EXCEPT !.grammar_reads = DictUpdate(@, gr.d)],
                          exc      |-> "none"]

\* the store and the exception (or "none") import_progress_json ends with
import_progress_json(p, text) ==
    LET loaded == json_loads(text)
    IN  IF ~loaded.ok THEN [progress |-> p, exc |-> loaded.exc]
        ELSE
        LET data == loaded.v
            hasW == Contains(data, "word_scores")
        IN  IF ~hasW.ok THEN [progress |-> p, exc |-> hasW.exc]
            ELSE IF ~hasW.v THEN [progress |-> p, exc |-> "ValueError"]
            ELSE IF ~Contains(data, "grammar_reads").v
                 THEN [progress |-> p, exc |-> "ValueError"]
            ELSE
            LET ws == py_dict(data.d["word_scores"])
            IN  IF ~ws.ok THEN [progress |-> p, exc |-> ws.exc]
                ELSE
                LET p1 == [p EXCEPT !.word_scores = ws.d]
                    gr == py_dict(data.d["grammar_reads"])
                IN  IF ~gr.ok THEN [progress |-> p1, exc |-> gr.exc]
                    ELSE [progress |-> [p1 EXCEPT !.grammar_reads = gr.d],
                          exc      |-> "none"]

(***************************************************************************)
(* Question selection.                                                     *)
(***************************************************************************)
RECURSIVE SumSeq(_)
SumSeq(s) == IF Len(s) = 0 THEN 0 ELSE s[Len(s)] + SumSeq(SubSeq(s, 1, Len(s) - 1))

\* itertools.accumulate(weights)
RECURSIVE Accumulate(_)
Accumulate(weights) ==
    IF Len(weights) = 0 THEN <<>>
    ELSE Append(Accumulate(SubSeq(weights, 1, Len(weights) - 1)), SumSeq(weights))

\* bisect.bisect_left(a, x, 0, hi) in the place of bisect.bisect
BisectLeft(a, x, hi) ==
    IF \E i \in 0..(hi - 1) : x <= a[i + 1]
    THEN CHOOSE i \in 0..(hi - 1) :
             x <= a[i + 1] /\ \A j \in 0..(i - 1) : ~(x <= a[j + 1])
    ELSE hi

\* bisect.bisect(a, x, 0, hi): the first position in 0..hi-1 whose element
\* is greater than x, and hi when there is none
Bisect(a, x, hi) ==
    IF \E i \in 0..(hi - 1) : x < a[i + 1]
    THEN CHOOSE i \in 0..(hi - 1) :
             x < a[i + 1] /\ \A j \in 0..(i - 1) : ~(x < a[j + 1])
    ELSE hi

\* the indices random.choices(range(n), weights=weights, k=1)[0] can give:
\* random() * total lies in [0, total), and only its integer part matters
\* to the comparison with the integer cumulative weights
random_choices(n, weights) ==
    UNION {{Bisect(cum_weights, x, n - 1) : x \in 0..(cum_weights[n] - 1)} :
              cum_weights \in {Accumulate(weights)}}

\* the indices random.randrange(n) can give (none: it raises ValueError)
random_randrange(n) == 0..(n - 1)

\* a loop that weighs a row by 50 - total
RECURSIVE WeightsLoop50(_, _)
WeightsLoop50(totals, headwords) ==
    IF Len(headwords) = 0 THEN <<>>
    ELSE LET hw    == headwords[Len(headwords)]
             total == IF hw \in DOMAIN totals THEN totals[hw] ELSE 5
             w     == 50 - total
         IN  Append(WeightsLoop50(totals, SubSeq(headwords, 1, Len(headwords) - 1)),
                    IF w < 0 THEN 0 ELSE w)

\* the loop that builds the weights list, one weight per row
RECURSIVE WeightsLoop(_, _)
WeightsLoop(totals, headwords) ==
    IF Len(headwords) = 0 THEN <<>>
    ELSE LET hw    == headwords[Len(headwords)]
             total == IF hw \in DOMAIN totals THEN totals[hw] ELSE 5
             w     == 51 - total
         IN  Append(WeightsLoop(totals, SubSeq(headwords, 1, Len(headwords) - 1)),
                    IF w < 0 THEN 0 ELSE w)

Weights(p, level, headwords) ==
    CHOOSE weights \in {WeightsLoop(totals, headwords) :
                            totals \in {get_all_word_totals(p, level, headwords)}} : TRUE

\* the row indices choose_word_weighted(level, df_words) can return, df_words
\* being given by its headword column
choose_word_weighted(p, level, headwords) ==
    UNION {IF SumSeq(weights) = 0 THEN random_randrange(Len(headwords))
           ELSE random_choices(Len(headwords), weights) :
              weights \in {Weights(p, level, headwords)}}

\* the modes random.choice(enabled_modes) can give
\* a choice that always takes the first mode
pick_mode_first(enabled_modes) == {enabled_modes[1]}

pick_mode(enabled_modes) == {enabled_modes[i] : i \in 1..Len(enabled_modes)}

(***************************************************************************)
(* Inputs of the calls.                                                    *)
(***************************************************************************)
hwA  == <<"a">>
hwB  == <<"b">>
hwAB == <<"a", "|", "b">>
nmG  == <<"g">>
nmGH == <<"g", "|", "h">>

LevelInputs    == {A1, A2}
HeadwordInputs == {hwA, hwAB}
ModeInputs     == {1}
\* the three grade buttons
SCORES         == {10, 5, 0}
\* headword columns of word tables
WordLists      == {<<>>, <<hwA>>, <<hwA, hwB>>, <<hwA, hwAB, hwA>>}
\* load_words(level): the headword column of the level's word table
Words(level)   == IF level = A1 THEN <<hwA, hwAB, hwA>> ELSE <<hwA, hwB>>
NameInputs     == {nmG, nmGH}
\* name columns of grammar tables
NameLists      == {<<>>, <<nmG>>, <<nmG, nmGH, nmG>>}

Entry(score, attempts, at) ==
    [score |-> score, attempts |-> attempts, updated_at |-> at]

Read(count, at) == [read_count |-> count, last_read_at |-> at]

Object(members) == [k |-> "object", m |-> members]

\* a text that is not JSON
DocInvalid == [k |-> "invalid"]
\* a JSON array
DocArray == [k |-> "array", a |-> <<>>]
\* a bare JSON number
DocNumber == [k |-> "number", n |-> 7]
\* objects that lack one of the two collections
DocNoGrammar ==
    Object(<< <<"version", [k |-> "number", n |-> 1]>>,
              <<"word_scores", Object(<< <<WordKey(A1, hwA, 1), Entry(5, 1, 0)>> >>)>> >>)
DocNoWords ==
    Object(<< <<"grammar_reads", Object(<< <<GrammarKey(A1, nmG), Read(1, 0)>> >>)>> >>)
\* both collections, empty
DocEmpty ==
    Object(<< <<"word_scores", Object(<<>>)>>, <<"grammar_reads", Object(<<>>)>> >>)
\* grammar_reads present but a number
DocBadGrammar ==
    Object(<< <<"word_scores", Object(<< <<WordKey(A1, hwB, 3), Entry(5, 1, 0)>> >>)>>,
              <<"grammar_reads", [k |-> "number", n |-> 5]>> >>)
\* word_scores present but null
DocBadWords ==
    Object(<< <<"word_scores", [k |-> "null"]>>,
              <<"grammar_reads", Object(<< <<GrammarKey(A1, nmG), Read(1, 0)>> >>)>> >>)
\* every mode of both words of level A2 graded 10
DocMastered ==
    Object(<< <<"version", [k |-> "number", n |-> 1]>>,
              <<"exported_at", [k |-> "number", n |-> 0]>>,
              <<"word_scores",
                Object([i \in 1..10 |->
                          <<WordKey(A2, IF i <= 5 THEN hwA ELSE hwB, ((i - 1) % 5) + 1),
                            Entry(10, 1, 0)>>])>>,
              <<"grammar_reads", Object(<< <<GrammarKey(A2, nmG), Read(3, 0)>> >>)>> >>)
\* a hand-edited file: records lacking fields, a repeated key, a mode written
\* "01", a mode 6, a score outside the buttons' values, an unknown member
DocEdited ==
    Object(<< <<"note", [k |-> "string", s |-> "edited"]>>,
              <<"word_scores",
                Object(<< <<A1 \o <<SEP>> \o hwA \o <<SEP, "0", "1">>, [score |-> 10]>>,
                          <<WordKey(A1, hwA, 6), Entry(10, 1, 0)>>,
                          <<WordKey(A1, hwA, 2), Entry(5, 1, 0)>>,
                          <<WordKey(A1, hwA, 2), Entry(0, 2, 0)>>,
                          <<WordKey(A2, hwA, 1), Entry(60, 4, 0)>>,
                          <<WordKey(A2, hwB, 1), [attempts |-> 1]>>,
                          <<WordKey(A1, hwB, 1), [score |-> 5]>> >>)>>,
              <<"grammar_reads",
                Object(<< <<GrammarKey(A1, nmG), [last_read_at |-> 0]>>,
                          <<GrammarKey(A2, nmGH), Read(2, 0)>> >>)>>,
              <<"grammar_reads",
                Object(<< <<GrammarKey(A1, nmG), [last_read_at |-> 0]>>,
                          <<GrammarKey(A1, nmGH), Read(2, 0)>> >>)>> >>)

Docs == {DocInvalid, DocArray, DocNumber, DocNoGrammar, DocNoWords, DocEmpty,
         DocBadGrammar, DocBadWords, DocMastered, DocEdited}

(***************************************************************************)
(* The state machine.  ret is what the last call gave back to its caller,  *)
(* clock the second of the wall clock that now_iso() reads.                *)
(***************************************************************************)
\* Python's None, and a value that is not None
None == <<>>
Some(x) == <<x>>

Writers == {"w1", "w2"}

\* the state after the first run of the script: the store is empty, the
\* selectbox shows its first level, the checkbox is unchecked, no quiz has
\* been started
Init ==
    /\ progress = ensure_progress
    /\ clock = 0
    /\ nops = 0
    /\ ret = [op |-> "none"]
    /\ word_level = A1
    /\ include_listening = FALSE
    /\ started = FALSE
    /\ q_idx = None
    /\ q_mode = None
    /\ revealed = FALSE
    /\ pc = [w \in Writers |-> "idle"]
    /\ call = [w \in Writers |-> None]
    /\ prev_attempts = [w \in Writers |-> 0]

\* a second passes
Tick ==
    /\ nops < MaxOps
    /\ clock' = clock + 1
    /\ nops' = nops + 1
    /\ UNCHANGED <<progress, ret, quiz, writers>>

SetWordModeScore(level, headword, mode, score) ==
    /\ nops < MaxOps
    /\ progress' = set_word_mode_score(progress, level, headword, mode, score, clock)
    /\ ret' = [op |-> "set"]
    /\ nops' = nops + 1
    /\ UNCHANGED <<clock, quiz, writers>>

MarkGrammarRead(level, name) ==
    /\ nops < MaxOps
    /\ progress' = mark_grammar_read(progress, level, name, clock)
    /\ ret' = [op |-> "mark"]
    /\ nops' = nops + 1
    /\ UNCHANGED <<clock, quiz, writers>>

GetWordModeScore(level, headword, mode) ==
    /\ ret' = [op |-> "get", pair |-> get_word_mode_score(progress, level, headword, mode)]
    /\ UNCHANGED <<progress, clock, nops, quiz, writers>>

GetAllWordTotals(level, headwords) ==
    /\ ret' = [op |-> "totals", totals |-> get_all_word_totals(progress, level, headwords)]
    /\ UNCHANGED <<progress, clock, nops, quiz, writers>>

ChooseWordWeighted(level, headwords) ==
    /\ \E indices \in {choose_word_weighted(progress, level, headwords)} :
          IF indices = {} THEN ret' = [op |-> "choose", exc |-> "ValueError"]
          ELSE \E idx \in indices : ret' = [op |-> "choose", idx |-> idx]
    /\ UNCHANGED <<progress, clock, nops, quiz, writers>>

GetGrammarReadStats(level, names) ==
    /\ ret' = [op |-> "stats", stats |-> get_grammar_read_stats(progress, level, names)]
    /\ UNCHANGED <<progress, clock, nops, quiz, writers>>

ExportProgressJson ==
    /\ ret' = [op |-> "export", doc |-> export_progress_json(progress, clock)]
    /\ UNCHANGED <<progress, clock, nops, quiz, writers>>

\* the texts that can be uploaded: the sample files and the export just made
Uploads == Docs \cup (IF ret.op = "export" THEN {ret.doc} ELSE {})

ImportProgressJson(text) ==
    /\ nops < MaxOps
    /\ LET result == import_progress_json(progress, text)
       IN  /\ progress' = result.progress
           /\ ret' = [op |-> "import", exc |-> result.exc]
    /\ nops' = nops + 1
    /\ UNCHANGED <<clock, quiz, writers>>

\* the calls that write the store, and the clock
Write ==
    \/ \E level \in LevelInputs, headword \in HeadwordInputs,
          mode \in ModeInputs, score \in SCORES :
          SetWordModeScore(level, headword, mode, score)
    \/ \E level \in LevelInputs, name \in NameInputs : MarkGrammarRead(level, name)
    \/ \E text \in Uploads : ImportProgressJson(text)
    \/ Tick

\* the store and its serializer
Next ==
    \/ Write
    \/ \E level \in LevelInputs, headword \in HeadwordInputs, mode \in ModeInputs :
          GetWordModeScore(level, headword, mode)
    \/ \E level \in LevelInputs, names \in NameLists : GetGrammarReadStats(level, names)
    \/ ExportProgressJson

Spec == Init /\ [][Next]_vars

\* the files uploaded while the selection is looked at
SelectDocs == {DocEmpty, DocBadGrammar, DocMastered, DocEdited}

\* the word scores with the score aggregation and the question selection,
\* within one second of the clock
NextSelect ==
    \/ \E level \in LevelInputs, headword \in HeadwordInputs,
          mode \in ModeInputs, score \in SCORES :
          SetWordModeScore(level, headword, mode, score)
    \/ \E text \in SelectDocs : ImportProgressJson(text)
    \/ \E level \in LevelInputs : GetAllWordTotals(level, Words(level))
    \/ \E level \in LevelInputs : ChooseWordWeighted(level, Words(level))

SpecSelect == Init /\ [][NextSelect]_vars

(***************************************************************************)
(* The word quiz.  One step is one run of the script, started by a button  *)
(* or a widget of the tab; a button can be pressed when the run before     *)
(* drew it.                                                                *)
(***************************************************************************)
\* whether the row of the word list has an English example sentence
HasExample(level) == IF level = A1 THEN <<TRUE, FALSE, TRUE>> ELSE <<TRUE, TRUE>>

\* [1, 2, 3, 4] + ([5] if include_listening else [])
enabled_modes(listening) == <<1, 2, 3, 4>> \o (IF listening THEN <<5>> ELSE <<>>)

\* new_question(): random.randrange(0) raises for an empty word list, after
\* revealed has been cleared
new_question ==
    /\ revealed' = FALSE
    /\ \E indices \in {choose_word_weighted(progress, word_level, Words(word_level))} :
          IF indices = {} THEN UNCHANGED <<q_idx, q_mode>>
          ELSE \E idx \in indices, mode \in pick_mode(enabled_modes(include_listening)) :
                  /\ q_idx' = Some(idx)
                  /\ q_mode' = Some(mode)

\* the run gets past dfw.iloc[int(q_idx)] and draws the question
QuestionShown ==
    /\ started
    /\ q_idx # None
    /\ q_idx[1] < Len(Words(word_level))

\* what the question part draws for the mode
question_view(level, idx, mode) ==
    IF mode = 5
    THEN IF HasExample(level)[idx + 1] THEN "speak_button" ELSE "info"
    ELSE "subheader"

\* the level selectbox is set to another level
SelectLevel(level) ==
    /\ nops < MaxOps
    /\ level # word_level
    /\ word_level' = level
    /\ nops' = nops + 1
    /\ UNCHANGED <<progress, clock, ret, include_listening, started, q_idx, q_mode,
                   revealed, writers>>

\* the listening checkbox is clicked
ToggleListening ==
    /\ nops < MaxOps
    /\ include_listening' = ~include_listening
    /\ nops' = nops + 1
    /\ UNCHANGED <<progress, clock, ret, word_level, started, q_idx, q_mode,
                   revealed, writers>>

\* the start button
StartQuiz ==
    /\ nops < MaxOps
    /\ started' = TRUE
    /\ new_question
    /\ nops' = nops + 1
    /\ UNCHANGED <<progress, clock, ret, word_level, include_listening, writers>>

\* a reset that clears the progress with the quiz
ResetQuizProgress ==
    /\ nops < MaxOps
    /\ started' = FALSE
    /\ q_idx' = None
    /\ q_mode' = None
    /\ revealed' = FALSE
    /\ progress' = ensure_progress
    /\ nops' = nops + 1
    /\ UNCHANGED <<clock, ret, word_level, include_listening, writers>>

\* the reset button
ResetQuiz ==
    /\ nops < MaxOps
    /\ started' = FALSE
    /\ q_idx' = None
    /\ q_mode' = None
    /\ revealed' = FALSE
    /\ nops' = nops + 1
    /\ UNCHANGED <<progress, clock, ret, word_level, include_listening, writers>>

\* the button that shows the answer
Reveal ==
    /\ nops < MaxOps
    /\ QuestionShown
    /\ revealed' = TRUE
    /\ nops' = nops + 1
    /\ UNCHANGED <<progress, clock, ret, word_level, include_listening, started,
                   q_idx, q_mode, writers>>

\* the button for the next question
NextQuestion ==
    /\ nops < MaxOps
    /\ QuestionShown
    /\ revealed
    /\ new_question
    /\ nops' = nops + 1
    /\ UNCHANGED <<progress, clock, ret, word_level, include_listening, started,
                   writers>>

\* one of the three self-grading buttons
Grade(score) ==
    /\ nops < MaxOps
    /\ QuestionShown
    /\ revealed
    /\ progress' = set_word_mode_score(progress, word_level,
                                       Words(word_level)[q_idx[1] + 1], q_mode[1],
                                       score, clock)
    /\ ret' = [op |-> "set"]
    /\ nops' = nops + 1
    /\ UNCHANGED <<clock, quiz, writers>>

\* a skip that records the word as failed
SkipRecorded ==
    /\ nops < MaxOps
    /\ QuestionShown
    /\ revealed
    /\ progress' = set_word_mode_score(progress, word_level,
                                       Words(word_level)[q_idx[1] + 1], q_mode[1],
                                       0, clock)
    /\ nops' = nops + 1
    /\ UNCHANGED <<clock, ret, quiz, writers>>

\* the skip button: a message, and the script runs again
Skip ==
    /\ nops < MaxOps
    /\ QuestionShown
    /\ revealed
    /\ nops' = nops + 1
    /\ UNCHANGED <<progress, clock, ret, quiz, writers>>

\* the files uploaded while the quiz is looked at
QuizDocs == {DocMastered, DocEdited}

\* the word quiz with the grammar read button, the download and the upload
NextQuiz ==
    \/ \E level \in LevelInputs : SelectLevel(level)
    \/ ToggleListening
    \/ StartQuiz
    \/ ResetQuiz
    \/ Reveal
    \/ NextQuestion
    \/ \E score \in SCORES : Grade(score)
    \/ Skip
    \/ \E level \in LevelInputs, name \in NameInputs : MarkGrammarRead(level, name)
    \/ ExportProgressJson
    \/ \E text \in QuizDocs : ImportProgressJson(text)

SpecQuiz == Init /\ [][NextQuiz]_vars

(***************************************************************************)
(* Two calls of set_word_mode_score that run at the same time.  The call   *)
(* reads the attempts, then writes the entry; nothing in it keeps another  *)
(* call from running between the two steps.                                *)
(***************************************************************************)
\* the call is made
WriterCall(w, level, headword, mode, score) ==
    /\ pc[w] = "idle"
    /\ call' = [call EXCEPT ![w] = <<level, headword, mode, score>>]
    /\ pc' = [pc EXCEPT ![w] = "read"]
    /\ UNCHANGED <<progress, clock, nops, ret, quiz, prev_attempts>>

\* prev_score, prev_attempts = get_word_mode_score(level, headword, mode)
WriterRead(w) ==
    /\ pc[w] = "read"
    /\ prev_attempts' =
           [prev_attempts EXCEPT
               ![w] = get_word_mode_score(progress, call[w][1], call[w][2], call[w][3])[2]]
    /\ pc' = [pc EXCEPT ![w] = "write"]
    /\ UNCHANGED <<progress, clock, nops, ret, quiz, call>>

\* progress["word_scores"][key] = {score, prev_attempts + 1, now_iso()}
WriterWrite(w) ==
    /\ pc[w] = "write"
    /\ progress' =
           [progress EXCEPT !.word_scores =
               DictSet(@, WordKey(call[w][1], call[w][2], call[w][3]),
                       [score      |-> call[w][4],
                        attempts   |-> prev_attempts[w] + 1,
                        updated_at |-> clock])]
    /\ pc' = [pc EXCEPT ![w] = "done"]
    /\ ret' = [op |-> "set"]
    /\ UNCHANGED <<clock, nops, quiz, call, prev_attempts>>

NextWriters ==
    \/ \E w \in Writers, level \in LevelInputs, headword \in HeadwordInputs,
          mode \in ModeInputs, score \in SCORES :
          WriterCall(w, level, headword, mode, score)
    \/ \E w \in Writers : WriterRead(w)
    \/ \E w \in Writers : WriterWrite(w)

SpecWriters == Init /\ [][NextWriters]_vars

(***************************************************************************)
(* Properties of the store.                                                *)
(***************************************************************************)
AllHeadwords == {hwA, hwB, hwAB}

Absent(p, level, headword, mode) ==
    WordKey(level, headword, mode) \notin DOMAIN p.word_scores

\* C1: a grade followed by a read of the same key gives the score of the
\* grade and the attempts read before the grade plus one, whatever the store
\* held before.
C1_SetThenGet ==
    [][\A level \in LevelInputs, headword \in HeadwordInputs,
          mode \in ModeInputs, score \in SCORES :
          (ret'.op = "set" /\ SetWordModeScore(level, headword, mode, score)) =>
              get_word_mode_score(progress', level, headword, mode)
                  = <<score, get_word_mode_score(progress, level, headword, mode)[2] + 1>>
      ]_vars

\* a key graded 10 and then 0 reads (0, 2)
C1_Witness ==
    /\ ret.op = "set"
    /\ get_word_mode_score(progress, A1, hwA, 1) = <<0, 2>>

\* C2: a read of a key that has no entry returns (1, 0), raises nothing and
\* leaves the store as it was.
C2_UnseenDefault ==
    [][\A level \in LevelInputs, headword \in HeadwordInputs, mode \in ModeInputs :
          (/\ ret'.op = "get"
           /\ GetWordModeScore(level, headword, mode)
           /\ Absent(progress, level, headword, mode)) =>
              /\ ret' = [op |-> "get", pair |-> <<1, 0>>]
              /\ progress' = progress
      ]_vars

\* an unseen key was read from a store that holds other entries
C2_Witness ==
    /\ ret = [op |-> "get", pair |-> <<1, 0>>]
    /\ DOMAIN progress.word_scores # {}
    /\ \E level \in LevelInputs, headword \in HeadwordInputs, mode \in ModeInputs :
          Absent(progress, level, headword, mode)

(***************************************************************************)
(* Properties of the aggregation and of the selection.                     *)
(***************************************************************************)
NonEmptyWordLists == WordLists \ {<<>>}

\* the sum over modes 1..5 of the scores get_word_mode_score returns
RECURSIVE ModeScoreSum(_, _, _, _)
ModeScoreSum(p, level, headword, mode) ==
    IF mode = 0 THEN 0
    ELSE get_word_mode_score(p, level, headword, mode)[1]
             + ModeScoreSum(p, level, headword, mode - 1)

\* C3: the total of every listed headword is the sum of its five mode scores
\* as get_word_mode_score returns them.
C3_TotalsAreModeSums ==
    \A level \in LevelInputs, headwords \in WordLists :
        \A totals \in {get_all_word_totals(progress, level, headwords)} :
            \A i \in 1..Len(headwords) :
                totals[headwords[i]] = ModeScoreSum(progress, level, headwords[i], 5)

\* the weight of a row as the claims give it: max(0, 51 - total)
ClaimWeight(total) == IF 51 - total > 0 THEN 51 - total ELSE 0

RowTotal(p, level, headwords, i) ==
    get_all_word_totals(p, level, headwords)[headwords[i]]

\* C4: the indices the selection can return are the rows of positive weight
\* when there is one, and all the rows when every weight is 0.
C4_DrawableIndices ==
    \A level \in LevelInputs, headwords \in NonEmptyWordLists :
        \A totals \in {get_all_word_totals(progress, level, headwords)} :
            LET n        == Len(headwords)
                positive == {i \in 1..n : ClaimWeight(totals[headwords[i]]) > 0}
                drawn    == choose_word_weighted(progress, level, headwords)
            IN  IF positive # {} THEN drawn = {i - 1 : i \in positive}
                ELSE drawn = 0..(n - 1)

\* an index was drawn from a table that has a row of weight 0 next to a row
\* of positive weight
C4_Witness ==
    /\ ret.op = "choose"
    /\ "idx" \in DOMAIN ret
    /\ ClaimWeight(RowTotal(progress, A2, Words(A2), 1)) = 0
    /\ ClaimWeight(RowTotal(progress, A2, Words(A2), 2)) > 0

AllMastered(p, level, headwords) ==
    \A totals \in {get_all_word_totals(p, level, headwords)} :
        \A i \in 1..Len(headwords) : totals[headwords[i]] = 50

\* C5 as claimed: when every row has total 50 every weight is 0 and the
\* uniform fallback draws any index.
C5_MasteredWeightZero ==
    \A level \in LevelInputs, headwords \in NonEmptyWordLists :
        AllMastered(progress, level, headwords) =>
            \A weights \in {Weights(progress, level, headwords)} :
                /\ \A i \in 1..Len(headwords) : weights[i] = 0
                /\ SumSeq(weights) = 0
                /\ choose_word_weighted(progress, level, headwords)
                       = 0..(Len(headwords) - 1)

\* C5 amended: when every row has total 50 every weight is 1, the weights
\* do not sum to 0, and the weighted draw can return any index of the table.
C5_MasteredWeightOne ==
    \A level \in LevelInputs, headwords \in NonEmptyWordLists :
        AllMastered(progress, level, headwords) =>
            \A weights \in {Weights(progress, level, headwords)} :
                /\ \A i \in 1..Len(headwords) : weights[i] = 1
                /\ SumSeq(weights) = Len(headwords)
                /\ choose_word_weighted(progress, level, headwords)
                       = 0..(Len(headwords) - 1)

\* the last row of a table whose rows are all at total 50 was drawn
C5_Witness ==
    /\ AllMastered(progress, A2, Words(A2))
    /\ ret = [op |-> "choose", idx |-> Len(Words(A2)) - 1]

(***************************************************************************)
(* Properties of the serializer.                                           *)
(***************************************************************************)
\* the store a fresh session holds after it has imported the export of p
RoundTrip(p, now) ==
    import_progress_json(ensure_progress, export_progress_json(p, now))

SameReads(p, q) ==
    /\ DOMAIN q.word_scores = DOMAIN p.word_scores
    /\ \A level \in LEVELS, headword \in AllHeadwords, mode \in 1..6 :
          get_word_mode_score(q, level, headword, mode)
              = get_word_mode_score(p, level, headword, mode)
    /\ DOMAIN q.grammar_reads = DOMAIN p.grammar_reads
    /\ \A key \in DOMAIN p.grammar_reads :
          /\ ("read_count" \in DOMAIN q.grammar_reads[key])
                 = ("read_count" \in DOMAIN p.grammar_reads[key])
          /\ RecGet(q.grammar_reads[key], "read_count", 0)
                 = RecGet(p.grammar_reads[key], "read_count", 0)
    /\ \A level \in LEVELS, names \in NameLists :
          get_grammar_read_stats(q, level, names) = get_grammar_read_stats(p, level, names)

\* C6: the export of the store, imported into a fresh store, is accepted and
\* gives a store with the same word-score reads, the same read counts and
\* the same grammar statistics.
C6_RoundTrip ==
    \A r \in {RoundTrip(progress, clock)} :
        /\ r.exc = "none"
        /\ SameReads(progress, r.progress)

\* an export was made of a store that holds word scores and grammar reads,
\* and a fresh store that imports it reads the same
C6_Witness ==
    /\ ret.op = "export"
    /\ DOMAIN progress.word_scores # {}
    /\ DOMAIN progress.grammar_reads # {}
    /\ SameReads(progress, import_progress_json(ensure_progress, ret.doc).progress)

\* the text has no top-level member of that name
LacksMember(text, name) ==
    \/ text.k # "object"
    \/ \A i \in 1..Len(text.m) : text.m[i][1] # name

LacksCollection(text) ==
    LacksMember(text, "word_scores") \/ LacksMember(text, "grammar_reads")

\* C7: an import of a document that lacks word_scores or grammar_reads
\* raises an error and leaves the whole store as it was.
C7_MissingCollectionRejected ==
    [][\A text \in Uploads :
          (ret'.op = "import" /\ LacksCollection(text) /\ ImportProgressJson(text)) =>
              /\ ret'.exc # "none"
              /\ progress' = progress
      ]_vars

\* an import was rejected with the ValueError of the validation while the
\* store held word scores and grammar reads
C7_Witness ==
    /\ ret = [op |-> "import", exc |-> "ValueError"]
    /\ DOMAIN progress.word_scores # {}
    /\ DOMAIN progress.grammar_reads # {}

\* the entries a text holds in the collection of that name: those of the
\* last member of that name, each key with its last value
DocEntries(text, name) ==
    LET last == CHOOSE i \in 1..Len(text.m) :
                    /\ text.m[i][1] = name
                    /\ \A j \in (i + 1)..Len(text.m) : text.m[j][1] # name
        value == text.m[last][2]
    IN  IF value.k # "object" THEN EmptyDict
        ELSE [key \in {value.m[i][1] : i \in 1..Len(value.m)} |->
                 value.m[CHOOSE i \in 1..Len(value.m) :
                             /\ value.m[i][1] = key
                             /\ \A j \in (i + 1)..Len(value.m) : value.m[j][1] # key][2]]

\* C8 as claimed: every import either replaces both collections by the
\* document's or raises and leaves both unchanged.
C8_ImportAtomic ==
    [][\A text \in Uploads :
          (ret'.op = "import" /\ ImportProgressJson(text)) =>
              \/ /\ ret'.exc = "none"
                 /\ progress'.word_scores = DocEntries(text, "word_scores")
                 /\ progress'.grammar_reads = DocEntries(text, "grammar_reads")
              \/ /\ ret'.exc # "none"
                 /\ progress' = progress
      ]_vars

\* C9: after a successful import the store holds exactly the entries of the
\* document; a key it held before and the document lacks reads as absent.
C9_ImportReplaces ==
    [][\A text \in Uploads :
          (ret' = [op |-> "import", exc |-> "none"] /\ ImportProgressJson(text)) =>
              /\ progress'.word_scores = DocEntries(text, "word_scores")
              /\ progress'.grammar_reads = DocEntries(text, "grammar_reads")
              /\ \A level \in LEVELS, headword \in AllHeadwords, mode \in 1..6 :
                    (/\ ~Absent(progress, level, headword, mode)
                     /\ WordKey(level, headword, mode)
                            \notin DOMAIN DocEntries(text, "word_scores"))
                    => get_word_mode_score(progress', level, headword, mode) = <<1, 0>>
              /\ \A level \in LEVELS, name \in NameInputs :
                    (/\ GrammarKey(level, name) \in DOMAIN progress.grammar_reads
                     /\ GrammarKey(level, name)
                            \notin DOMAIN DocEntries(text, "grammar_reads"))
                    => get_grammar_read_stats(progress', level, <<name>>) = <<0, 1>>
      ]_vars

\* the mastered file was imported after other events: the store holds
\* its ten word scores and its one grammar read, and nothing else
C9_Witness ==
    /\ ret = [op |-> "import", exc |-> "none"]
    /\ nops > 1
    /\ Cardinality(DOMAIN progress.word_scores) = 10
    /\ DOMAIN progress.grammar_reads = {GrammarKey(A2, nmG)}
    /\ get_word_mode_score(progress, A1, hwA, 1) = <<1, 0>>

(***************************************************************************)
(* Properties of the grammar reads.                                        *)
(***************************************************************************)
\* C10: a grammar read creates the entry with read_count 1 when there is
\* none and otherwise adds 1 to its read_count, and the statistics count
\* the name once however often it was read.
C10_MarkGrammarRead ==
    [][\A level \in LevelInputs, name \in NameInputs :
          (ret'.op = "mark" /\ MarkGrammarRead(level, name)) =>
              LET key == GrammarKey(level, name)
              IN  /\ key \in DOMAIN progress'.grammar_reads
                  /\ key \notin DOMAIN progress.grammar_reads
                        => progress'.grammar_reads[key].read_count = 1
                  /\ (/\ key \in DOMAIN progress.grammar_reads
                      /\ "read_count" \in DOMAIN progress.grammar_reads[key])
                        => progress'.grammar_reads[key].read_count
                               = progress.grammar_reads[key].read_count + 1
                  /\ get_grammar_read_stats(progress', level, <<name>>) = <<1, 1>>
      ]_vars

\* a name read twice has read_count 2 and is counted once
C10_Witness ==
    /\ ret.op = "mark"
    /\ GrammarKey(A1, nmG) \in DOMAIN progress.grammar_reads
    /\ progress.grammar_reads[GrammarKey(A1, nmG)] = Read(2, 0)
    /\ get_grammar_read_stats(progress, A1, <<nmG>>) = <<1, 1>>

\* the listed places whose name has a read entry under the level
ReadPlaces(p, level, names) ==
    {i \in 1..Len(names) : GrammarKey(level, names[i]) \in DOMAIN p.grammar_reads}

\* C11: get_grammar_read_stats(level, names) gives (read_unique, total) where
\* total is the length of names and read_unique counts the listed names that
\* have a read entry under exactly that level; entries of other levels and
\* of names not listed do not count, and 0 <= read_unique <= total.
C11_GrammarReadStats ==
    \A level \in LEVELS, names \in NameLists :
        \A stats \in {get_grammar_read_stats(progress, level, names)} :
            /\ stats[2] = Len(names)
            /\ stats[1] = Cardinality(ReadPlaces(progress, level, names))
            /\ 0 <= stats[1]
            /\ stats[1] <= stats[2]

\* g is read under A1 and g|h under A2 only: two of the three listed places
\* of A1 count
C11_Witness ==
    /\ ret = [op |-> "stats", stats |-> <<2, 3>>]
    /\ GrammarKey(A1, nmG) \in DOMAIN progress.grammar_reads
    /\ GrammarKey(A2, nmGH) \in DOMAIN progress.grammar_reads
    /\ GrammarKey(A1, nmGH) \notin DOMAIN progress.grammar_reads
    /\ get_grammar_read_stats(progress, A1, <<nmG, nmGH, nmG>>) = <<2, 3>>

\* C12: in every reachable state, after any sequence of grades, grammar
\* reads, exports and imports, a word-score entry is present for a key
\* exactly when the attempts read for the key are at least 1; attempts 0 is
\* read exactly for the absent keys.
C12_PresentIffAttempted ==
    \A level \in LEVELS, headword \in AllHeadwords, mode \in 1..6 :
        (WordKey(level, headword, mode) \in DOMAIN progress.word_scores)
            <=> (get_word_mode_score(progress, level, headword, mode)[2] >= 1)

\* the keys that set_word_mode_score writes
GradeKeys == {WordKey(level, headword, mode) :
                 level \in LEVELS, headword \in AllHeadwords, mode \in 1..6}

\* every entry of the store is one that a grade with 10, 5 or 0 writes
GradedByButtons(p) ==
    \A key \in DOMAIN p.word_scores :
        /\ key \in GradeKeys
        /\ RecGet(p.word_scores[key], "score", 1) \in SCORES

\* C13: as long as every score written is 0, 5 or 10, every total that
\* get_all_word_totals gives is an integer from 0 to 50, whatever grades
\* were given and in whatever order.
C13_TotalsInRange ==
    GradedByButtons(progress) =>
        \A level \in LevelInputs :
            \A totals \in {get_all_word_totals(progress, level, Words(level))} :
                \A hw \in DOMAIN totals : totals[hw] \in 0..50

\* both words of A2 mastered, then the first graded 0 in mode 1
C13_Witness ==
    /\ GradedByButtons(progress)
    /\ ret.op = "totals"
    /\ DOMAIN ret.totals = {hwA, hwB}
    /\ ret.totals[hwA] = 40
    /\ ret.totals[hwB] = 50
    /\ get_all_word_totals(progress, A2, Words(A2)) = ret.totals

\* no key of the store is lost and no read count falls in the step
EntriesKept ==
    /\ DOMAIN progress.word_scores \subseteq DOMAIN progress'.word_scores
    /\ DOMAIN progress.grammar_reads \subseteq DOMAIN progress'.grammar_reads
    /\ \A key \in DOMAIN progress.grammar_reads :
          RecGet(progress'.grammar_reads[key], "read_count", 0)
              >= RecGet(progress.grammar_reads[key], "read_count", 0)

UnknownLevel == <<"C", "1">>

\* C15: the selection fails with an error, and gives no index, whenever it
\* is called with a level outside A1, A2, B1, B2 or with an empty word list.
C15_SelectionFailsFast ==
    \A level \in LevelInputs \cup {UnknownLevel}, headwords \in WordLists :
        (level \notin LEVELS \/ headwords = <<>>)
            => choose_word_weighted(progress, level, headwords) = {}

\* C16: the quiz goes idle -> questioning -> revealed -> (grade | next) ->
\* questioning | idle: from the revealed state a grade and a next both leave
\* the revealed state, so that one revealed question is graded at most once
\* before a new question is drawn.
C16_GradeAndNextLeaveRevealed ==
    [][(revealed /\ ((\E score \in SCORES : Grade(score)) \/ NextQuestion))
          => ~revealed'
      ]_vars

\* C17: score updates lose no increment under interleaving: when two calls
\* of set_word_mode_score on the same key have both returned, however their
\* read and write steps were interleaved, the attempts of the key are the
\* attempts before the calls (0: the store starts empty) plus 2.
C17_NoLostIncrement ==
    (/\ \A w \in Writers : pc[w] = "done"
     /\ \A w, v \in Writers : SubSeq(call[w], 1, 3) = SubSeq(call[v], 1, 3))
        => \A w \in Writers :
              get_word_mode_score(progress, call[w][1], call[w][2], call[w][3])[2] = 2

\* the modes enabled by the checkbox
EnabledSet(listening) == (1..4) \cup (IF listening THEN {5} ELSE {})

\* the question shown is a listening question on a row without an example
ListeningWithoutExample ==
    /\ QuestionShown
    /\ q_mode = Some(5)
    /\ ~HasExample(word_level)[q_idx[1] + 1]

\* C18: pick_mode gives an element of the enabled modes it is called with,
\* and every enabled mode can be given; mode 5 is not filtered by whether
\* the chosen row has an example sentence: for a row without one the
\* question part shows the cannot-present message, and the question stays
\* on mode 5.
C18_PickMode ==
    [][/\ (revealed' = FALSE /\ started' /\ (StartQuiz \/ NextQuestion))
            => /\ q_mode' # None
               /\ q_mode'[1] \in EnabledSet(include_listening)
       /\ pick_mode(enabled_modes(include_listening)) = EnabledSet(include_listening)
       /\ ListeningWithoutExample
            => /\ question_view(word_level, q_idx[1], q_mode[1]) = "info"
               /\ (Reveal \/ Skip \/ \E score \in SCORES : Grade(score))
                     => q_mode' = Some(5)
      ]_vars

\* a listening question was drawn for the row of A1 that has no example, and
\* its answer was revealed
C18_Witness ==
    /\ ListeningWithoutExample
    /\ include_listening
    /\ word_level = A1
    /\ q_idx = Some(1)
    /\ revealed
    /\ question_view(word_level, q_idx[1], q_mode[1]) = "info"

\* C19: in every reachable state of the session in which a question is
\* displayed (started, q_idx set), q_idx is a row index of the word list of
\* the level now selected and q_mode is one of the modes now enabled, also
\* after the level selector or the listening checkbox was changed.
C19_QuestionValid ==
    (started /\ q_idx # None)
        => /\ q_idx[1] \in 0..(Len(Words(word_level)) - 1)
           /\ q_mode # None
           /\ q_mode[1] \in EnabledSet(include_listening)

\* the dictionary e is d with at most the entry of key written
OnlyKeyWritten(d, e, key) ==
    /\ DOMAIN e = DOMAIN d \cup {key}
    /\ \A k \in DOMAIN d \ {key} : e[k] = d[k]

\* C20: set_word_mode_score changes the entry of its own (level, headword,
\* mode) key only: every other word-score entry and every grammar-read
\* entry is as before, also when headwords contain the delimiter; and
\* mark_grammar_read changes the entry of its own (level, name) key only.
C20_WritesOnlyOwnKey ==
    [][/\ \A level \in LevelInputs, headword \in HeadwordInputs,
             mode \in ModeInputs, score \in SCORES :
             (ret'.op = "set" /\ SetWordModeScore(level, headword, mode, score)) =>
                 /\ OnlyKeyWritten(progress.word_scores, progress'.word_scores,
                                   WordKey(level, headword, mode))
                 /\ progress'.grammar_reads = progress.grammar_reads
                 /\ \A l \in LevelInputs, hw \in AllHeadwords, m \in 1..2 :
                       <<l, hw, m>> # <<level, headword, mode>> =>
                           /\ get_word_mode_score(progress', l, hw, m)
                                 = get_word_mode_score(progress, l, hw, m)
                           /\ Absent(progress', l, hw, m) <=> Absent(progress, l, hw, m)
       /\ \A level \in LevelInputs, name \in NameInputs :
             (ret'.op = "mark" /\ MarkGrammarRead(level, name)) =>
                 /\ OnlyKeyWritten(progress.grammar_reads, progress'.grammar_reads,
                                   GrammarKey(level, name))
                 /\ progress'.word_scores = progress.word_scores
      ]_vars

\* a and a|b of A1 are graded differently and a grammar entry is read:
\* the last grade left the other two entries alone
C20_Witness ==
    /\ ret.op = "set"
    /\ get_word_mode_score(progress, A1, hwA, 1) = <<10, 1>>
    /\ get_word_mode_score(progress, A1, hwAB, 1) = <<0, 1>>
    /\ GrammarKey(A1, nmGH) \in DOMAIN progress.grammar_reads

\* the step is one of the three grade buttons
GradeStep == \E score \in SCORES : Grade(score)

\* the step is an upload of a progress file
UploadStep == ret'.op = "import" /\ \E text \in QuizDocs : ImportProgressJson(text)

\* C21: skip, reveal, next question, quiz start and quiz reset leave the
\* whole progress store, word scores and grammar reads, as it was; among the
\* steps of the page that are not an upload, the word scores change only by
\* one of the three grade buttons; and a grade is taken only while the
\* session is in the revealed state, on a question that is shown.
C21_OnlyGradesWriteScores ==
    [][/\ (nops' # nops /\ ret' = ret
             /\ (Skip \/ Reveal \/ ResetQuiz \/ StartQuiz \/ NextQuestion))
            => progress' = progress
       /\ (progress'.word_scores # progress.word_scores /\ ~UploadStep)
            => GradeStep
       /\ (ret'.op = "set" /\ GradeStep)
            => (started /\ q_idx # None /\ revealed)
      ]_vars

\* the revealed question, row 0 of A1 in mode 1, was graded 5: the store
\* holds that one entry, and the session is as it was
C21_Witness ==
    /\ ret.op = "set"
    /\ started
    /\ revealed
    /\ word_level = A1
    /\ q_idx = Some(0)
    /\ q_mode = Some(1)
    /\ DOMAIN progress.word_scores = {WordKey(A1, hwA, 1)}
    /\ get_word_mode_score(progress, A1, hwA, 1) = <<5, 1>>
    /\ DOMAIN progress.grammar_reads = {}

====
